---- MODULE Spec2Model ----
(***************************************************************************)
(* A model of the CSV-analysis backend: backend/main.py (the HTTP layer    *)
(* that owns the process-wide dataset reference and the plots directory)   *)
(* and backend/analysis.py (generate_all_plots and generate_chart).        *)
(*                                                                         *)
(* Strings that the code takes apart (uploaded file names) are sequences   *)
(* of one-character strings.  A data frame is a record                     *)
(*   [src, cols, rows, complete]                                           *)
(* where src identifies the upload it was parsed from, cols is the ordered *)
(* list of columns [name, dtype, nunique], rows is df.shape[0] and         *)
(* complete is the number of rows left by dropna() on the numeric columns. *)
(* The plots directory is the set of files under PLOTS_ROOT; a file is     *)
(* [dir, tok, prefix, src]: the dataset directory it is in (<<>> is        *)
(* PLOTS_ROOT itself), the uuid token and the prefix of its name, and the  *)
(* data frame it was rendered from.  The pyplot context is the number of   *)
(* figures its registry holds open.                                        *)
(* Directories are not tracked apart from their files: upload_csv,         *)
(* generate_all_plots and generate_chart all create the directory they     *)
(* write to (os.makedirs, _ensure_dir) before they use it.  A handler runs *)
(* on the event loop without interruption between two awaits, so each      *)
(* action is a handler's code from one await to the next.                  *)
(***************************************************************************)
EXTENDS Integers, Sequences, FiniteSets, TLC

VARIABLES
    df_global,            \* main.py:30  <<>> is None, <<df>> a data frame
    dataset_name_global,  \* main.py:31  <<>> is None, <<name>> a sanitized name
    disk,                 \* the files under PLOTS_ROOT
    plt,                  \* matplotlib.pyplot's figure registry
    uploads,              \* /upload requests suspended at `await file.read()`
    charts,               \* number of /generate_chart requests suspended at
                          \*   `await request.json()`
    resp,                 \* the response of the request the last step completed
    uploaded_ok,          \* history: some /upload has returned its 200 response
    call,                 \* library-level check: the arguments of the call
    result                \* library-level check: what the call did

vars == <<df_global, dataset_name_global, disk, plt, uploads, charts, resp,
          uploaded_ok, call, result>>

None == <<>>
Some(x) == <<x>>
Min(a, b) == IF a <= b THEN a ELSE b
Head_n(s, n) == SubSeq(s, 1, Min(n, Len(s)))     \* s[:n]
SeqToSet(s) == {s[i] : i \in 1..Len(s)}

(***************************************************************************)
(* Bounds of the model.                                                    *)
(***************************************************************************)
MaxTokens == 1        \* uuid tokens available to the files of one name
MaxOpenFigs == 2      \* leaked figures the pyplot registry may hold
MaxUploads == 1       \* /upload requests in flight at once
MaxCharts == 1        \* /generate_chart requests in flight at once

(***************************************************************************)
(* analysis.py: the file name scheme and the pyplot figure registry.       *)
(***************************************************************************)
Tokens == 1..MaxTokens
UsedTokens(d, save_dir, prefix) ==
    {f.tok : f \in {g \in d : g.dir = save_dir /\ g.prefix = prefix}}
FreeTokens(d, save_dir, prefix) == Tokens \ UsedTokens(d, save_dir, prefix)

(* uuid.uuid4().hex: a token that makes the file name new.  The name is    *)
(* the token and the prefix, so the token is one that no file of this      *)
(* prefix in this directory carries.                                       *)
Uuid4(d, save_dir, prefix) ==
    CHOOSE t \in FreeTokens(d, save_dir, prefix) :
        \A u \in FreeTokens(d, save_dir, prefix) : t <= u

\* _unique_filename + os.path.join(save_dir, fname): the path of a new file.
UniquePath(d, save_dir, prefix) ==
    [dir |-> save_dir, tok |-> Uuid4(d, save_dir, prefix), prefix |-> prefix]

\* The model's bound on file names: a token is left for a file of this name.
HasToken(d, save_dir, prefix) == FreeTokens(d, save_dir, prefix) # {}

PathOf(f) == [dir |-> f.dir, tok |-> f.tok, prefix |-> f.prefix]
FileOf(path, src) ==
    [dir |-> path.dir, tok |-> path.tok, prefix |-> path.prefix, src |-> src]

\* plt.figure(...): a new figure is opened and becomes the current one.
PltFigure(p) == p + 1

\* plt.close(): closes the current figure, if there is one.
PltClose(p) == IF p > 0 THEN p - 1 ELSE 0

\* plt.savefig(path) / pair.savefig(path): the file appears on disk.
SaveFig(d, path, src) == d \cup {FileOf(path, src)}

(***************************************************************************)
(* analysis.py: column selection.                                          *)
(***************************************************************************)
IsNumber(c) == c.dtype = "number"
IsCategorical(c) == c.dtype \in {"object", "category", "bool"}

\* df.select_dtypes(include=["number"]).columns.tolist()
NumericCols(df) == SelectSeq(df.cols, IsNumber)
\* df.select_dtypes(include=["object", "category", "bool"]).columns.tolist()
CatCols(df) == SelectSeq(df.cols, IsCategorical)

ColumnNames(df) == {df.cols[i].name : i \in 1..Len(df.cols)}
ColumnOf(df, name) == CHOOSE c \in SeqToSet(df.cols) : c.name = name

(***************************************************************************)
(* analysis.py: generate_all_plots.  Program constants of the batch.       *)
(***************************************************************************)
HistCap == 6
BoxCap == 4
CountCap == 3
PieCap == 2
PieMaxValues == 8
PairMinCols == 2
PairMaxCols == 6
PairMaxRows == 5000
PairSample == 500

Job(kind, cols) == [kind |-> kind, cols |-> cols]
JobsFor(kind, cs) == [i \in 1..Len(cs) |-> Job(kind, <<cs[i].name>>)]

\* HistJobs with the box plots' cap in place of the histograms'.
HistJobs_BoxCap(df) == JobsFor("hist", Head_n(NumericCols(df), BoxCap))

\* for col in numeric_cols[:6]
HistJobs(df) == JobsFor("hist", Head_n(NumericCols(df), HistCap))
\* if len(numeric_cols) >= 1: numeric_cols[0]
KdeJobs(df) == JobsFor("kde", Head_n(NumericCols(df), 1))
\* for col in numeric_cols[:4]
BoxJobs(df) == JobsFor("box", Head_n(NumericCols(df), BoxCap))
\* if len(numeric_cols) >= 1: numeric_cols[0]
ViolinJobs(df) == JobsFor("violin", Head_n(NumericCols(df), 1))
\* for col in cat_cols[:3]
CountJobs(df) == JobsFor("count", Head_n(CatCols(df), CountCap))

\* if 1 < len(vc) <= 8, with vc = df[col].value_counts()
PieEligible(c) == 1 < c.nunique /\ c.nunique <= PieMaxValues

\* for col in cat_cols[:2]: ... if 1 < len(vc) <= 8
PieJobs(df) == JobsFor("pie", SelectSeq(Head_n(CatCols(df), PieCap), PieEligible))

\* if len(numeric_cols) > 1
HeatmapJobs(df) ==
    IF Len(NumericCols(df)) > 1 THEN <<Job("heatmap", <<>>)>> ELSE <<>>

\* The charts before the pairplot, in the order the code renders them.
BatchJobs(df) ==
    HistJobs(df) \o KdeJobs(df) \o BoxJobs(df) \o ViolinJobs(df)
        \o CountJobs(df) \o PieJobs(df) \o HeatmapJobs(df)

(* One chart of the batch: plt.figure, the seaborn call, plt.savefig,      *)
(* plt.close, files.append.  The render step numbered failAt raises in the *)
(* seaborn call: its figure stays open, nothing is saved, and the          *)
(* exception leaves generate_all_plots.                                    *)
RenderJob(st, save_dir, src, job, failAt) ==
    IF st.raised THEN st
    ELSE LET path == UniquePath(st.disk, save_dir, job)
             p1 == PltFigure(st.plt)
             n == st.step + 1
         IN  IF n = failAt
             THEN [st EXCEPT !.plt = p1, !.raised = TRUE, !.step = n]
             ELSE [st EXCEPT !.disk = SaveFig(st.disk, path, src),
                             !.plt = PltClose(p1),
                             !.files = Append(st.files, path),
                             !.step = n]

RECURSIVE RunJobs(_, _, _, _, _, _)
RunJobs(jobs, i, st, save_dir, src, failAt) ==
    IF i > Len(jobs) THEN st
    ELSE RunJobs(jobs, i + 1, RenderJob(st, save_dir, src, jobs[i], failAt),
                 save_dir, src, failAt)

\* if 2 <= len(numeric_cols) <= 6 and df.shape[0] <= 5000
PairplotWanted(df) ==
    /\ PairMinCols <= Len(NumericCols(df))
    /\ Len(NumericCols(df)) <= PairMaxCols
    /\ df.rows <= PairMaxRows

\* df[numeric_cols].dropna().sample(min(500, df.shape[0])) raises ValueError
\* when fewer rows are left than the sample asks for.
SampleRaises(df) == df.complete < Min(PairSample, df.rows)

(* PairplotStep without the try/except: a failure of the pairplot leaves   *)
(* generate_all_plots as an exception.                                     *)
PairplotStep_Unguarded(st, df, save_dir, pairFails) ==
    IF st.raised THEN st
    ELSE IF ~PairplotWanted(df) THEN [st EXCEPT !.pair = "skipped"]
    ELSE IF SampleRaises(df) THEN [st EXCEPT !.pair = "failed", !.raised = TRUE]
    ELSE LET path == UniquePath(st.disk, save_dir, Job("pairplot", <<>>))
             p1 == PltFigure(st.plt)
         IN  IF pairFails
             THEN [st EXCEPT !.plt = p1, !.pair = "failed", !.raised = TRUE]
             ELSE [st EXCEPT !.disk = SaveFig(st.disk, path, df.src),
                             !.plt = PltClose(p1),
                             !.files = Append(st.files, path),
                             !.pair = "saved"]

(* The pairplot step, inside try/except Exception: pass.  pairFails is the *)
(* plotting library raising in sns.pairplot or plt.savefig, after the grid *)
(* opened its figure.                                                      *)
PairplotStep(st, df, save_dir, pairFails) ==
    IF st.raised THEN st
    ELSE IF ~PairplotWanted(df) THEN [st EXCEPT !.pair = "skipped"]
    ELSE IF SampleRaises(df) THEN [st EXCEPT !.pair = "failed"]
    ELSE LET path == UniquePath(st.disk, save_dir, Job("pairplot", <<>>))
             p1 == PltFigure(st.plt)
         IN  IF pairFails
             THEN [st EXCEPT !.plt = p1, !.pair = "failed"]
             ELSE [st EXCEPT !.disk = SaveFig(st.disk, path, df.src),
                             !.plt = PltClose(p1),
                             !.files = Append(st.files, path),
                             !.pair = "saved"]

(* generate_all_plots(df, save_dir) run on disk d with pyplot state p.     *)
(* Returns [raised, files, disk, plt, pair, step]: whether an exception    *)
(* left the call, the list it returns, the disk and the pyplot state it    *)
(* leaves, and what became of the pairplot step.                           *)
generate_all_plots(df, save_dir, d, p, failAt, pairFails) ==
    LET st0 == [raised |-> FALSE, files |-> <<>>, disk |-> d, plt |-> p,
                pair |-> "not reached", step |-> 0]
        st1 == RunJobs(BatchJobs(df), 1, st0, save_dir, df.src, failAt)
    IN  PairplotStep(st1, df, save_dir, pairFails)

(***************************************************************************)
(* analysis.py: generate_chart.                                            *)
(***************************************************************************)
CHART_REQ ==
    [histogram |-> [min |-> 1, max |-> Some(1)],
     kde       |-> [min |-> 1, max |-> Some(1)],
     box       |-> [min |-> 1, max |-> Some(1)],
     violin    |-> [min |-> 1, max |-> Some(1)],
     scatter   |-> [min |-> 2, max |-> Some(2)],
     line      |-> [min |-> 2, max |-> Some(2)],
     bar       |-> [min |-> 2, max |-> Some(2)],
     countplot |-> [min |-> 1, max |-> Some(1)],
     pie       |-> [min |-> 1, max |-> Some(1)],
     pairplot  |-> [min |-> 2, max |-> None],
     heatmap   |-> [min |-> 2, max |-> None],
     regplot   |-> [min |-> 2, max |-> Some(2)]]

\* ColumnCountOk with the upper bound forgotten.
ColumnCountOk_MinOnly(req, columns) == Len(columns) >= req.min

\* ok = len(columns) >= req["min"]  /  req["min"] <= len(columns) <= req["max"]
ColumnCountOk(req, columns) ==
    IF req.max = None
    THEN Len(columns) >= req.min
    ELSE req.min <= Len(columns) /\ Len(columns) <= req.max[1]

\* for c in columns: if c not in df.columns: raise
MissingColumns(df, columns) ==
    {i \in 1..Len(columns) : columns[i] \notin ColumnNames(df)}

\* df[columns].select_dtypes(include=["number"]).shape[1]
NumericSelected(df, columns) ==
    Cardinality({i \in 1..Len(columns) : IsNumber(ColumnOf(df, columns[i]))})

Raise(type, detail, d, p) ==
    [status |-> type, detail |-> detail, path |-> None, disk |-> d, plt |-> p]
Return(path, d, p) ==
    [status |-> "ok", detail |-> "", path |-> Some(path), disk |-> d, plt |-> p]

(* The pairplot branch: sns.pairplot opens the grid's own figure next to   *)
(* the one plt.figure opened; pair.savefig; plt.close() closes the current *)
(* figure, the grid's.                                                     *)
PairplotBranch(df, path, d, p1, render) ==
    LET p2 == PltFigure(p1)
    IN  IF render # "ok"
        THEN Raise(render, "render", d, p2)
        ELSE Return(path, SaveFig(d, path, df.src), PltClose(p2))

(* HeatmapBranch counting the requested columns, numeric or not.           *)
HeatmapBranch_AllColumns(df, columns, path, d, p1, render) ==
    IF Len(columns) < 2
    THEN Raise("ValueError", "Heatmap requires at least 2 numeric columns.", d, p1)
    ELSE IF render # "ok"
    THEN Raise(render, "render", d, p1)
    ELSE Return(path, SaveFig(d, path, df.src), PltClose(p1))

(* The heatmap branch: the numeric subset of the requested columns must    *)
(* have 2 columns or more.                                                 *)
HeatmapBranch(df, columns, path, d, p1, render) ==
    IF NumericSelected(df, columns) < 2
    THEN Raise("ValueError", "Heatmap requires at least 2 numeric columns.", d, p1)
    ELSE IF render # "ok"
    THEN Raise(render, "render", d, p1)
    ELSE Return(path, SaveFig(d, path, df.src), PltClose(p1))

(* PlainBranch with the file saved before the plotting call is made.       *)
PlainBranch_SaveFirst(df, path, d, p1, render) ==
    IF render # "ok"
    THEN Raise(render, "render", SaveFig(d, path, df.src), p1)
    ELSE Return(path, SaveFig(d, path, df.src), PltClose(p1))

(* Every other branch: the plotting call, then plt.tight_layout,           *)
(* plt.savefig, plt.close.                                                 *)
PlainBranch(df, path, d, p1, render) ==
    IF render # "ok"
    THEN Raise(render, "render", d, p1)
    ELSE Return(path, SaveFig(d, path, df.src), PltClose(p1))

(* generate_chart(df, chart_type, columns, out_dir) run on disk d with     *)
(* pyplot state p.  render is what the plotting library does with the      *)
(* request: "ok", or the type of the exception it raises.                  *)
generate_chart(df, chart_type, columns, out_dir, d, p, render) ==
    IF chart_type \notin DOMAIN CHART_REQ
    THEN Raise("ValueError", "Unsupported chart type", d, p)
    ELSE IF ~ColumnCountOk(CHART_REQ[chart_type], columns)
    THEN Raise("ValueError", "requires between min and max columns", d, p)
    ELSE IF MissingColumns(df, columns) # {}
    THEN Raise("ValueError", "Column not found in dataset.", d, p)
    ELSE LET path == UniquePath(d, out_dir, Job(chart_type, columns))
             p1 == PltFigure(p)
         IN  CASE chart_type = "pairplot" ->
                    PairplotBranch(df, path, d, p1, render)
               [] chart_type = "heatmap" ->
                    HeatmapBranch(df, columns, path, d, p1, render)
               [] OTHER -> PlainBranch(df, path, d, p1, render)

(***************************************************************************)
(* main.py: the dataset name an upload's file name gives.                  *)
(***************************************************************************)
Upper == [C |-> "c", S |-> "s", V |-> "v"]
Alnum == {"a", "c", "s", "v", "t", "x", "C", "S", "V"}

\* str.lower(), character by character
Lower(s) == [i \in 1..Len(s) |-> IF s[i] \in DOMAIN Upper THEN Upper[s[i]] ELSE s[i]]

\* str.endswith(suffix)
EndsWith(s, suffix) ==
    /\ Len(s) >= Len(suffix)
    /\ SubSeq(s, Len(s) - Len(suffix) + 1, Len(s)) = suffix

\* str.rfind(ch) + 1: the last position of ch in s, 0 when absent
RFind(s, ch) ==
    LET at == {i \in 1..Len(s) : s[i] = ch}
    IN  IF at = {} THEN 0 ELSE CHOOSE i \in at : \A j \in at : j <= i

(* os.path.splitext(p)[0]: the extension starts at the last dot of the     *)
(* last path component, unless only dots come before it in the component.  *)
SplitextRoot(p) ==
    LET sep == RFind(p, "/")
        dot == RFind(p, ".")
    IN  IF dot > sep /\ \E i \in (sep + 1)..(dot - 1) : p[i] # "."
        THEN SubSeq(p, 1, dot - 1)
        ELSE p

\* c.isalnum() or c in (" ", "_", "-")
KeptChar(c) == c \in Alnum \/ c \in {" ", "_", "-"}

\* str.strip()
RECURSIVE Strip(_)
Strip(s) ==
    IF s = <<>> THEN s
    ELSE IF Head(s) = " " THEN Strip(Tail(s))
    ELSE IF s[Len(s)] = " " THEN Strip(SubSeq(s, 1, Len(s) - 1))
    ELSE s

\* "".join(c for c in dataset_name if c.isalnum() or c in (" ", "_", "-")).strip()
DatasetNameSafe(filename) == Strip(SelectSeq(SplitextRoot(filename), KeptChar))

\* file.filename.lower().endswith(".csv")
IsCsvName(filename) == EndsWith(Lower(filename), <<".", "c", "s", "v">>)

(* shutil.rmtree(os.path.join(PLOTS_ROOT, name)) followed by os.makedirs:  *)
(* every file under the directory goes.  os.path.join(PLOTS_ROOT, "") is   *)
(* PLOTS_ROOT itself, which holds every dataset directory.                 *)
InDirTree(f, name) == name = <<>> \/ f.dir = name
RmTree(d, name) == {f \in d : ~InDirTree(f, name)}

(***************************************************************************)
(* The requests the server is driven with.                                 *)
(***************************************************************************)
Col(name, dtype, nunique) == [name |-> name, dtype |-> dtype, nunique |-> nunique]

\* Uploaded file names: "a.CSV", " !.csv", "a.txt"
Filenames ==
    << <<"a", ".", "C", "S", "V">>,
       <<" ", "!", ".", "c", "s", "v">>,
       <<"a", ".", "t", "x", "t">> >>

(* Uploaded contents: what pd.read_csv makes of the bytes.  try is the     *)
(* attempt of _read_csv_bytes that parses them (0: none does).             *)
Contents ==
    << [try |-> 0, cols |-> <<>>, rows |-> 0, complete |-> 0],
       [try |-> 1, cols |-> <<Col("b", "object", 1)>>, rows |-> 3, complete |-> 3],
       [try |-> 3, cols |-> <<Col("k", "bool", 2)>>, rows |-> 3, complete |-> 3] >>

\* _read_csv_bytes: the data frame, or the last exception when no attempt parses
ReadCsvRaises(content) == content.try = 0
ReadCsvBytes(f, c) ==
    [src |-> [name |-> DatasetNameSafe(Filenames[f]), data |-> c],
     cols |-> Contents[c].cols, rows |-> Contents[c].rows,
     complete |-> Contents[c].complete]

\* Bodies of /generate_chart requests.
ChartBodies ==
    { [json |-> "object", chart_type |-> "histogram", columns |-> <<"b">>],
      [json |-> "object", chart_type |-> "scatter", columns |-> <<"b">>],
      [json |-> "object", chart_type |-> "heatmap", columns |-> <<"b", "b">>],
      [json |-> "object", chart_type |-> "pairplot", columns |-> <<"b", "b">>],
      [json |-> "object", chart_type |-> "treemap", columns |-> <<"b">>],
      [json |-> "object", chart_type |-> "", columns |-> <<"b">>],
      [json |-> "object", chart_type |-> "histogram", columns |-> <<>>],
      [json |-> "invalid", chart_type |-> "", columns |-> <<>>] }

\* What the plotting library does with a render: "ok" or the exception it raises.
RenderOutcomes == {"ok", "ValueError", "Exception"}

(* What goes wrong in an upload after the CSV parsed: nothing, perform_eda *)
(* raising, render step `step` of generate_all_plots raising, the pairplot *)
(* raising, or JSONResponse failing to serialize the EDA summary.          *)
Faults(df) ==
    {[at |-> a, step |-> 0] : a \in {"none", "eda", "pairplot", "response"}}
        \cup {[at |-> "plots", step |-> k] : k \in 1..Len(BatchJobs(df))}

(***************************************************************************)
(* main.py: the responses.                                                 *)
(***************************************************************************)
NoResp ==
    [op |-> "none", status |-> 0, detail |-> "", seen_df |-> None,
     seen_name |-> None, inflight |-> FALSE, path |-> None]

\* The response of a request that read the globals as they are in this state.
Response(op, status, detail, path) ==
    [op |-> op, status |-> status, detail |-> detail, seen_df |-> df_global,
     seen_name |-> dataset_name_global, inflight |-> uploads # {}, path |-> path]

NoCall == [fn |-> "none"]
LibIdle == UNCHANGED <<call, result>>

(* UploadStart with dataset_name_global assigned before the await.         *)
UploadStart_NameFirst(f) ==
    /\ LibIdle
    /\ UNCHANGED <<df_global, plt, charts, uploaded_ok>>
    /\ IF ~IsCsvName(Filenames[f])
       THEN /\ resp' = Response("upload", 400, "Only CSV files are supported.", None)
            /\ UNCHANGED <<disk, uploads, dataset_name_global>>
       ELSE /\ Cardinality(uploads) < MaxUploads
            /\ disk' = RmTree(disk, DatasetNameSafe(Filenames[f]))
            /\ dataset_name_global' = Some(DatasetNameSafe(Filenames[f]))
            /\ [f |-> f] \notin uploads
            /\ uploads' = uploads \cup {[f |-> f]}
            /\ resp' = NoResp

(***************************************************************************)
(* main.py: upload_csv, up to `await file.read()`.                         *)
(***************************************************************************)
UploadStart(f) ==
    /\ LibIdle
    /\ UNCHANGED <<df_global, dataset_name_global, plt, charts, uploaded_ok>>
    /\ IF ~IsCsvName(Filenames[f])
       THEN /\ resp' = Response("upload", 400, "Only CSV files are supported.", None)
            /\ UNCHANGED <<disk, uploads>>
       ELSE /\ Cardinality(uploads) < MaxUploads
            /\ disk' = RmTree(disk, DatasetNameSafe(Filenames[f]))
            /\ [f |-> f] \notin uploads
            /\ uploads' = uploads \cup {[f |-> f]}
            /\ resp' = NoResp

(***************************************************************************)
(* main.py: upload_csv, from `await file.read()` to its response.          *)
(***************************************************************************)
UploadStored(u, c, fault) ==
    LET df == ReadCsvBytes(u.f, c)
        dataset_name_safe == DatasetNameSafe(Filenames[u.f])
        r == generate_all_plots(df, dataset_name_safe, disk, plt,
                                IF fault.at = "plots" THEN fault.step ELSE 0,
                                fault.at = "pairplot")
    IN  /\ \A i \in 1..Len(BatchJobs(df)) :
               HasToken(disk, dataset_name_safe, BatchJobs(df)[i])
        /\ HasToken(disk, dataset_name_safe, Job("pairplot", <<>>))
        /\ r.plt <= MaxOpenFigs
        /\ df_global' = Some(df)
        /\ dataset_name_global' = Some(dataset_name_safe)
        /\ IF fault.at = "eda"
           THEN /\ resp' = Response("upload", 500, "Internal Server Error", None)
                /\ UNCHANGED <<disk, plt, uploaded_ok>>
           ELSE /\ disk' = r.disk
                /\ plt' = r.plt
                /\ IF r.raised \/ fault.at = "response"
                   THEN /\ resp' = Response("upload", 500, "Internal Server Error", None)
                        /\ UNCHANGED uploaded_ok
                   ELSE /\ resp' = Response("upload", 200, "CSV uploaded successfully",
                                            None)
                        /\ uploaded_ok' = TRUE

UploadFinish(u, c) ==
    /\ LibIdle
    /\ u \in uploads
    /\ uploads' = uploads \ {u}
    /\ UNCHANGED charts
    /\ IF ReadCsvRaises(Contents[c])
       THEN /\ resp' = Response("upload", 400, "Failed to read CSV", None)
            /\ UNCHANGED <<df_global, dataset_name_global, disk, plt, uploaded_ok>>
       ELSE \E fault \in Faults(ReadCsvBytes(u.f, c)) : UploadStored(u, c, fault)

(***************************************************************************)
(* main.py: generate_chart_endpoint, up to `await request.json()`.         *)
(***************************************************************************)
ChartStart ==
    /\ LibIdle
    /\ UNCHANGED <<df_global, dataset_name_global, disk, plt, uploads, uploaded_ok>>
    /\ IF df_global = None \/ dataset_name_global = None
       THEN /\ resp' = Response("chart", 400,
                                "No dataset uploaded yet. Use /upload first.", None)
            /\ UNCHANGED charts
       ELSE /\ charts < MaxCharts
            /\ charts' = charts + 1
            /\ resp' = NoResp

(***************************************************************************)
(* main.py: generate_chart_endpoint, from `await request.json()` on.       *)
(***************************************************************************)
ChartRendered(b, render) ==
    LET r == generate_chart(df_global[1], b.chart_type, b.columns,
                            dataset_name_global[1], disk, plt, render)
    IN  /\ HasToken(disk, dataset_name_global[1], Job(b.chart_type, b.columns))
        /\ r.plt <= MaxOpenFigs
        /\ disk' = r.disk
        /\ plt' = r.plt
        /\ resp' = CASE r.status = "ok" ->
                          Response("chart", 200, "", r.path)
                     [] r.status = "ValueError" ->
                          Response("chart", 400, r.detail, None)
                     [] OTHER ->
                          Response("chart", 500, "Chart generation failed", None)

ChartFinish(b) ==
    /\ LibIdle
    /\ charts > 0
    /\ charts' = charts - 1
    /\ UNCHANGED <<df_global, dataset_name_global, uploads, uploaded_ok>>
    /\ IF b.json = "invalid"
       THEN /\ resp' = Response("chart", 400, "Invalid JSON body.", None)
            /\ UNCHANGED <<disk, plt>>
       ELSE IF b.chart_type = ""
       THEN /\ resp' = Response("chart", 400, "chart_type is required.", None)
            /\ UNCHANGED <<disk, plt>>
       ELSE IF b.columns = <<>>
       THEN /\ resp' = Response("chart", 400,
                                "columns must be a non-empty list of column names.", None)
            /\ UNCHANGED <<disk, plt>>
       ELSE \E render \in RenderOutcomes : ChartRendered(b, render)

(***************************************************************************)
(* main.py: ask_about_data.  ai_ok: generate_ai_insights returns.          *)
(***************************************************************************)
Ask(ai_ok) ==
    /\ LibIdle
    /\ UNCHANGED <<df_global, dataset_name_global, disk, plt, uploads, charts,
                   uploaded_ok>>
    /\ resp' = IF df_global = None
               THEN Response("ask", 400, "No CSV uploaded yet.", None)
               ELSE IF ~ai_ok
               THEN Response("ask", 500, "AI query failed", None)
               ELSE Response("ask", 200, "", None)

(***************************************************************************)
(* The server: any interleaving of the handlers' steps.                    *)
(***************************************************************************)
Init ==
    /\ df_global = None
    /\ dataset_name_global = None
    /\ disk = {}
    /\ plt = 0
    /\ uploads = {}
    /\ charts = 0
    /\ resp = NoResp
    /\ uploaded_ok = FALSE
    /\ call = NoCall
    /\ result = NoCall

Next ==
    \/ \E f \in 1..Len(Filenames) : UploadStart(f)
    \/ \E u \in uploads, c \in 1..Len(Contents) : UploadFinish(u, c)
    \/ ChartStart
    \/ \E b \in ChartBodies : ChartFinish(b)
    \/ \E ai_ok \in BOOLEAN : Ask(ai_ok)

Spec == Init /\ [][Next]_vars

(* The event loop resumes a suspended handler once what it awaits is       *)
(* there: an upload whose body has arrived, a chart request whose JSON     *)
(* body has arrived.                                                       *)
FairSpec ==
    /\ Spec
    /\ WF_vars(\E u \in uploads, c \in 1..Len(Contents) : UploadFinish(u, c))
    /\ WF_vars(\E b \in ChartBodies : ChartFinish(b))

(***************************************************************************)
(* Library level: one call of generate_chart on a data frame with two      *)
(* numeric columns and a text column, for every chart type and every list  *)
(* of at most MaxColumns column names.                                     *)
(***************************************************************************)
MaxColumns == 3

LibFrame ==
    [src |-> [name |-> <<"d">>, data |-> 1],
     cols |-> <<Col("a", "number", 3), Col("b", "object", 2), Col("c", "number", 3)>>,
     rows |-> 3, complete |-> 3]

RequestedNames == {"a", "b", "c", "zz"}
ColumnLists == UNION {[1..n -> RequestedNames] : n \in 0..MaxColumns}
ChartTypes == DOMAIN CHART_REQ \cup {"treemap"}

ChartCalls ==
    {[fn |-> "generate_chart", df |-> LibFrame, chart_type |-> t, columns |-> cs,
      dir |-> <<"d">>] : t \in ChartTypes, cs \in ColumnLists}

\* A chart an earlier upload left in the output directory.
OldFile ==
    [dir |-> <<"d">>, tok |-> 1, prefix |-> Job("hist", <<"a">>),
     src |-> [name |-> <<"d">>, data |-> 0]]

ServerIdle ==
    UNCHANGED <<df_global, dataset_name_global, uploads, charts, resp, uploaded_ok>>

InitLib(calls) ==
    /\ df_global = None
    /\ dataset_name_global = None
    /\ disk \in {{}, {OldFile}}
    /\ plt = 0
    /\ uploads = {}
    /\ charts = 0
    /\ resp = NoResp
    /\ uploaded_ok = FALSE
    /\ call \in calls
    /\ result = NoCall

CallGenerateChart(render) ==
    LET r == generate_chart(call.df, call.chart_type, call.columns, call.dir,
                            disk, plt, render)
    IN  /\ call.fn = "generate_chart"
        /\ result = NoCall
        /\ result' = [fn |-> call.fn, status |-> r.status, detail |-> r.detail,
                      path |-> r.path, before |-> disk, render |-> render]
        /\ disk' = r.disk
        /\ plt' = r.plt
        /\ UNCHANGED call
        /\ ServerIdle

InitChart == InitLib(ChartCalls)
NextChart == \E render \in RenderOutcomes : CallGenerateChart(render)
SpecChart == InitChart /\ [][NextChart]_vars

(***************************************************************************)
(* Library level: one call of generate_all_plots on each frame of a family *)
(* with up to MaxNumeric numeric and MaxCategorical categorical columns.   *)
(***************************************************************************)
MaxNumeric == 7
MaxCategorical == 4

NumNames == <<"n1", "n2", "n3", "n4", "n5", "n6", "n7", "n8", "n9">>
CatNames == <<"k1", "k2", "k3", "k4", "k5", "k6">>
CatDtypes == <<"object", "bool", "category">>
UniqueCounts == {1, 2, 8, 9}
\* <<df.shape[0], rows left by dropna()>>
RowShapes == {<<3, 3>>, <<3, 2>>, <<5000, 500>>, <<5000, 499>>, <<5001, 5001>>}

(* A frame with a datetime column, then n numeric and c categorical        *)
(* columns taking turns; the first two categorical columns have u[1] and   *)
(* u[2] distinct values.                                                   *)
FrameCols(n, c, u) ==
    LET num(i) == Col(NumNames[i], "number", 3)
        cat(i) == Col(CatNames[i], CatDtypes[((i - 1) % 3) + 1],
                      IF i <= 2 THEN u[i] ELSE 3)
        both == Min(n, c)
        turns == [i \in 1..(2 * both) |->
                     IF i % 2 = 1 THEN cat((i + 1) \div 2) ELSE num(i \div 2)]
        restNum == [i \in 1..(n - both) |-> num(both + i)]
        restCat == [i \in 1..(c - both) |-> cat(both + i)]
    IN  <<Col("when", "datetime64", 3)>> \o turns \o restNum \o restCat

Frames ==
    {[src |-> [name |-> <<"d">>, data |-> 1], cols |-> FrameCols(n, c, u),
      rows |-> rs[1], complete |-> rs[2]] :
        n \in 0..MaxNumeric, c \in 0..MaxCategorical,
        u \in [1..2 -> UniqueCounts], rs \in RowShapes}

BatchCalls == {[fn |-> "generate_all_plots", df |-> df, dir |-> <<"d">>] : df \in Frames}

CallGenerateAllPlots(failAt, pairFails) ==
    LET r == generate_all_plots(call.df, call.dir, disk, plt, failAt, pairFails)
    IN  /\ call.fn = "generate_all_plots"
        /\ result = NoCall
        /\ disk = {}
        /\ result' = [fn |-> call.fn, raised |-> r.raised, files |-> r.files,
                      pair |-> r.pair, before |-> disk]
        /\ disk' = r.disk
        /\ plt' = r.plt
        /\ UNCHANGED call
        /\ ServerIdle

InitBatch == InitLib(BatchCalls)
NextBatch ==
    \E failAt \in 0..Len(BatchJobs(call.df)), pairFails \in BOOLEAN :
        CallGenerateAllPlots(failAt, pairFails)
SpecBatch == InitBatch /\ [][NextBatch]_vars

(***************************************************************************)
(* The claims.                                                             *)
(***************************************************************************)
NoDatasetDetails ==
    {"No dataset uploaded yet. Use /upload first.", "No CSV uploaded yet."}

(* C1: a /generate_chart or /ask request answered while no /upload has yet *)
(* returned its success response is rejected with the 400 "no dataset      *)
(* uploaded" error, also when earlier uploads ended in an error response.  *)
C1_RejectedBeforeSuccessfulUpload ==
    (resp.op \in {"chart", "ask"} /\ ~uploaded_ok)
        => (resp.status = 400 /\ resp.detail \in NoDatasetDetails)

(* C2: a step that completes a request with an error response leaves the   *)
(* current dataset, the current dataset name and the chart files on disk   *)
(* as they were.                                                           *)
C2_FailedRequestLeavesState ==
    [][resp'.status \in {400, 500}
          => UNCHANGED <<df_global, dataset_name_global, disk>>]_vars

(* C3: a chart file leaves the disk only in the step of an /upload whose    *)
(* sanitized dataset name is the name of the directory the file is in.     *)
C3_OnlyOwnDirectoryCleared ==
    [][\A f \in disk \ disk' :
          \E u \in uploads' \ uploads : f.dir = DatasetNameSafe(Filenames[u.f])]_vars

\* The bounds the claim declares for each chart type, on the number of columns.
OutsideDeclaredBound(t, n) ==
    CASE t \in {"histogram", "kde", "box", "violin", "countplot", "pie"} -> n # 1
      [] t \in {"scatter", "line", "bar", "regplot"} -> n # 2
      [] t \in {"pairplot", "heatmap"} -> n < 2
      [] OTHER -> FALSE

Called(fn) == result.fn = fn

(* C4: for each supported chart type, a generate_chart call whose number   *)
(* of columns is outside the type's declared bound fails with the          *)
(* column-count error and writes no file.                                  *)
C4_ColumnCountRejected ==
    (Called("generate_chart")
        /\ OutsideDeclaredBound(call.chart_type, Len(call.columns)))
        => /\ result.status = "ValueError"
           /\ result.detail = "requires between min and max columns"
           /\ disk = result.before

C4_Witness ==
    /\ Called("generate_chart")
    /\ call.chart_type = "scatter"
    /\ call.columns = <<"a">>
    /\ result.detail = "requires between min and max columns"

(* C5: a generate_chart call that returns has written exactly one new      *)
(* file, in the output directory, at the path it returns; a call that      *)
(* raises has written none.                                                *)
C5_OneFileIffSuccess ==
    Called("generate_chart")
        => IF result.status = "ok"
           THEN \E f \in disk :
                   /\ f \notin result.before
                   /\ disk = result.before \cup {f}
                   /\ f.dir = call.dir
                   /\ result.path = Some(PathOf(f))
           ELSE disk = result.before

C5_Witness ==
    /\ Called("generate_chart")
    /\ call.chart_type = "pairplot"
    /\ result.status = "ok"
    /\ result.before = {OldFile}
    /\ Cardinality(disk) = 2

\* The entries of the requested column list that name a numeric column.
NumericRequested ==
    {i \in 1..Len(call.columns) :
        \E j \in 1..Len(call.df.cols) :
            /\ call.df.cols[j].name = call.columns[i]
            /\ call.df.cols[j].dtype = "number"}

HeatmapValidated ==
    /\ Called("generate_chart")
    /\ call.chart_type = "heatmap"
    /\ Len(call.columns) >= 2
    /\ \A i \in 1..Len(call.columns) :
          \E j \in 1..Len(call.df.cols) : call.df.cols[j].name = call.columns[i]

(* C6: a heatmap request that passes validation fails with the domain      *)
(* error exactly when fewer than 2 entries of the requested list are       *)
(* numeric columns; with 2 or more it returns whenever the plotting        *)
(* library renders, other requested columns being non-numeric or not.      *)
C6_HeatmapDomainError ==
    HeatmapValidated
        => /\ (result.detail = "Heatmap requires at least 2 numeric columns.")
                 <=> (Cardinality(NumericRequested) < 2)
           /\ (Cardinality(NumericRequested) >= 2 /\ result.render = "ok")
                 => result.status = "ok"

C6_Witness ==
    /\ HeatmapValidated
    /\ call.columns = <<"a", "b", "c">>
    /\ result.status = "ok"

\* The chart kinds of the batch, in the order the claim lists them.
KindRank ==
    [hist |-> 1, kde |-> 2, box |-> 3, violin |-> 4, count |-> 5, pie |-> 6,
     heatmap |-> 7, pairplot |-> 8]

NumericCount == Cardinality({i \in 1..Len(call.df.cols) : call.df.cols[i].dtype = "number"})
CategoricalCount ==
    Cardinality({i \in 1..Len(call.df.cols) :
                    call.df.cols[i].dtype \in {"object", "category", "bool"}})
Returned(kind) == Cardinality({i \in 1..Len(result.files) : result.files[i].prefix.kind = kind})
PiesExpected ==
    Cardinality({i \in 1..Min(CategoricalCount, 2) :
                    /\ CatCols(call.df)[i].nunique >= 2
                    /\ CatCols(call.df)[i].nunique <= 8})

(* C7: the list generate_all_plots returns holds, in this order,           *)
(* min(n,6) histograms, a KDE plot iff n >= 1, min(n,4) box plots, a       *)
(* violin plot iff n >= 1, min(c,3) count plots, a pie chart for each of   *)
(* the first 2 categorical columns with 2 to 8 distinct values, a heatmap  *)
(* iff n > 1 and at most one pairplot (only if 2 <= n <= 6 and rows <=     *)
(* 5000); every entry is the path of a file the call wrote in the output   *)
(* directory.                                                              *)
C7_BatchContents ==
    (Called("generate_all_plots") /\ ~result.raised)
        => /\ Returned("hist") = Min(NumericCount, 6)
           /\ Returned("kde") = (IF NumericCount >= 1 THEN 1 ELSE 0)
           /\ Returned("box") = Min(NumericCount, 4)
           /\ Returned("violin") = (IF NumericCount >= 1 THEN 1 ELSE 0)
           /\ Returned("count") = Min(CategoricalCount, 3)
           /\ Returned("pie") = PiesExpected
           /\ Returned("heatmap") = (IF NumericCount > 1 THEN 1 ELSE 0)
           /\ Returned("pairplot") <= 1
           /\ Returned("pairplot") = 1
                 => (2 <= NumericCount /\ NumericCount <= 6 /\ call.df.rows <= 5000)
           /\ \A i, j \in 1..Len(result.files) :
                 i < j => /\ KindRank[result.files[i].prefix.kind]
                               <= KindRank[result.files[j].prefix.kind]
                          /\ result.files[i] # result.files[j]
           /\ \A i \in 1..Len(result.files) :
                 /\ result.files[i].dir = call.dir
                 /\ \E f \in disk \ result.before : PathOf(f) = result.files[i]
           /\ Cardinality(disk \ result.before) = Len(result.files)

C7_Witness ==
    /\ Called("generate_all_plots")
    /\ ~result.raised
    /\ NumericCount = 7
    /\ Returned("pie") = 2
    /\ Len(result.files) = 18

(* C8: when the pairplot step of generate_all_plots fails, the call raises *)
(* nothing, and the list it returns holds the paths of all the earlier     *)
(* charts and no pairplot path.                                            *)
C8_PairplotFailureSwallowed ==
    (Called("generate_all_plots") /\ result.pair = "failed")
        => /\ ~result.raised
           /\ Returned("pairplot") = 0
           /\ Len(result.files) = Len(BatchJobs(call.df))
           /\ \A i \in 1..Len(result.files) :
                 /\ result.files[i].prefix = BatchJobs(call.df)[i]
                 /\ \E f \in disk : PathOf(f) = result.files[i]

C8_Witness ==
    /\ Called("generate_all_plots")
    /\ result.pair = "failed"
    /\ call.df.complete = call.df.rows
    /\ Len(result.files) = 9

\* A /generate_chart or /ask request read the globals while an upload was in flight.
ObservedInFlight == resp.op \in {"chart", "ask"} /\ resp.inflight

\* The pair it read: both unset, or the data frame and the name of one upload.
PairOfOneUpload ==
    \/ resp.seen_df = None /\ resp.seen_name = None
    \/ /\ resp.seen_df # None
       /\ resp.seen_name # None
       /\ resp.seen_df[1].src.name = resp.seen_name[1]

(* C9 as amended: a /generate_chart or /ask request handled while an       *)
(* /upload is in flight reads the current dataset and the current dataset  *)
(* name both unset or both of the same upload, never a half-updated pair.  *)
C9_NeverHalfUpdated == ObservedInFlight => PairOfOneUpload

\* A request served from the dataset that was current before the upload in flight.
C9_Witness ==
    /\ ObservedInFlight
    /\ resp.op = "chart"
    /\ resp.status = 200
    /\ resp.seen_df # None
    /\ \E u \in uploads : DatasetNameSafe(Filenames[u.f]) # resp.seen_name[1]

(* C9 as claimed: requests handled while uploads are in flight can read a  *)
(* half-updated pair; so where they keep being handled in flight, one of   *)
(* them eventually does.                                                   *)
C9_HalfUpdatedObserved ==
    ([]<>ObservedInFlight) => <>(ObservedInFlight /\ ~PairOfOneUpload)

(* C10: at most one figure is open in the shared pyplot context in every   *)
(* reachable state.                                                        *)
C10_OneFigureInFlight == plt <= 1

\* The files in the plot directory of the current dataset name.
CurrentPlotDir == {f \in disk : f.dir = dataset_name_global[1]}

(* C11: every chart file in the plot directory of a dataset name was       *)
(* rendered from the dataset most recently stored as the current dataset   *)
(* under that name.  upload_csv stores the data frame and its name         *)
(* together, so for the current dataset name that dataset is the current   *)
(* one: every file in the current plot directory was rendered from the     *)
(* current dataset, also after a /generate_chart request ran between an    *)
(* upload's directory reset and its assignment of the new dataset.         *)
C11_ChartsOfCurrentDataset ==
    (df_global # None /\ dataset_name_global # None)
        => \A f \in CurrentPlotDir : f.src = df_global[1].src

====
